---- MODULE Spec2Model ----
(***************************************************************************)
(* DeepChartAI backend: the generate-chart and analyze-trends endpoints    *)
(* (backend/app.py), their pipelines (backend/routes.py), the validator    *)
(* and column sanitizer (backend/utils.py), the chart-config resolver and  *)
(* embedding producer (backend/llm_integration.py), the chart renderer     *)
(* (backend/chart_generator.py) and the vector-store gateway               *)
(* (backend/database.py).                                                  *)
(*                                                                         *)
(* Text is modelled as a sequence of one-character strings, a table        *)
(* (pandas DataFrame) as [columns, rows] with one label per column and one *)
(* cell sequence per row.  The libraries the code calls (pandas, json,     *)
(* plotly, the language model, the vector store) are modelled by the       *)
(* outcomes they can produce at each call site.                            *)
(***************************************************************************)
EXTENDS Integers, Sequences, FiniteSets, TLC

VARIABLES
    pc,            \* position of the request being served
    req,           \* the form fields of the request, as received
    content,       \* app.py create_chart: content
    data_type,     \* app.py create_chart: data_type
    filename,      \* app.py create_chart: filename
    df,            \* routes.py generate_chart: df
    chart_config,  \* routes.py generate_chart: chart_config
    embedding,     \* routes.py generate_chart: embedding
    env,           \* what the collaborators did for this request
    steps,         \* the pipeline steps this request has executed, in order
    calls,         \* collaborator calls made by this request
    resp,          \* the HTTP response of the request
    startup,       \* database.py module state of the current process
    hashSeed,      \* the current process's string-hash randomisation
    collection,    \* vector store: does the collection "charts" exist
    store,         \* vector store: the points of the collection
    lastCall,      \* what the last database.py call did
    uploads,       \* the save_embeddings calls that wrote, oldest first
    fnIn,          \* argument of the last direct validate_dataset call
    fnOut          \* its outcome

vars == <<pc, req, content, data_type, filename, df, chart_config, embedding,
          env, steps, calls, resp, startup, hashSeed, collection, store,
          lastCall, uploads, fnIn, fnOut>>

pipeVars == <<pc, req, content, data_type, filename, df, chart_config,
              embedding, env, steps, calls, resp>>

dbVars == <<startup, hashSeed, collection, store, lastCall, uploads>>

fnVars == <<fnIn, fnOut>>

(***************************************************************************)
(* Bounds of the model.                                                    *)
(***************************************************************************)
MaxRows == 2

MaxCols == 3

MaxUploads == 2

MaxRestarts == 1

(***************************************************************************)
(* Python values.                                                          *)
(***************************************************************************)
None == "None"

NoTable == [columns |-> <<>>, rows |-> <<>>]

Range(s) == {s[i] : i \in 1..Len(s)}

\* str labels come from CSV headers and JSON object keys, int labels from a
\* DataFrame built without keys (pandas RangeIndex).
StrLabel(name) == [t |-> "str", v |-> name]

Digits == <<"0", "1", "2", "3", "4", "5", "6", "7", "8", "9">>

IntLabel(n) == [t |-> "int", v |-> <<Digits[n + 1]>>]

ValueErrors == {"ValueError", "JSONDecodeError", "UnicodeDecodeError",
                "ParserError", "EmptyDataError"}

(***************************************************************************)
(* backend/utils.py                                                        *)
(***************************************************************************)
RECURSIVE LStrip(_)
LStrip(s) ==
    IF s # <<>> /\ Head(s) = " " THEN LStrip(Tail(s)) ELSE s

RECURSIVE RStrip(_)
RStrip(s) ==
    IF s # <<>> /\ s[Len(s)] = " " THEN RStrip(SubSeq(s, 1, Len(s) - 1)) ELSE s

Strip(s) == RStrip(LStrip(s))

Replace(s, old, new) == [i \in 1..Len(s) |-> IF s[i] = old THEN new ELSE s[i]]

LowerChar(c) ==
    CASE c = "A" -> "a"
      [] c = "B" -> "b"
      [] OTHER -> c

Lower(s) == [i \in 1..Len(s) |-> LowerChar(s[i])]

\* name.strip().replace(" ", "_").lower(); only str has these methods.
sanitize_column_name(label) ==
    IF label.t = "str"
    THEN [exc |-> "none",
          label |-> StrLabel(Lower(Replace(Strip(label.v), " ", "_")))]
    ELSE [exc |-> "AttributeError", label |-> label]

\* df.empty: some axis has length 0.
Empty(t) == Len(t.rows) = 0 \/ Len(t.columns) = 0

ValidateNoUnique(t) ==
    IF Empty(t) THEN [exc |-> "ValueError", msg |-> "Dataset is empty.", df |-> t]
    ELSE IF Len(t.columns) < 2
    THEN [exc |-> "ValueError",
          msg |-> "Dataset must have at least 2 columns.", df |-> t]
    ELSE [exc |-> "none", msg |-> "", df |-> t]

validate_dataset(t) ==
    IF Empty(t) THEN [exc |-> "ValueError", msg |-> "Dataset is empty.", df |-> t]
    ELSE IF Len(t.columns) < 2
    THEN [exc |-> "ValueError",
          msg |-> "Dataset must have at least 2 columns.", df |-> t]
    ELSE IF Cardinality(Range(t.columns)) # Len(t.columns)
    THEN [exc |-> "ValueError", msg |-> "Column names must be unique.", df |-> t]
    ELSE [exc |-> "none", msg |-> "", df |-> t]

(***************************************************************************)
(* Uploaded content.  A document is a byte string, described by what the   *)
(* three readers the code applies to it produce: bytes.decode("utf-8"),    *)
(* pandas.read_csv and json.loads.                                         *)
(***************************************************************************)
Cell(i, j, v) == 100 * v + 10 * i + j

Rows(n, m, v) == [i \in 1..n |-> [j \in 1..m |-> Cell(i, j, v)]]

StrTable(names, n, v) ==
    [columns |-> [k \in 1..Len(names) |-> StrLabel(names[k])],
     rows |-> Rows(n, Len(names), v)]

\* pandas labels the columns of keyless data 0, 1, ...
IntTable(m, n, v) ==
    [columns |-> [k \in 1..m |-> IntLabel(k - 1)], rows |-> Rows(n, m, v)]

CsvOk(t) == [exc |-> "none", df |-> t]

CsvErr(e) == [exc |-> e, df |-> NoTable]

Json(kind, t) == [kind |-> kind, df |-> t]

Doc(id, utf8, csv, json) == [id |-> id, utf8 |-> utf8, csv |-> csv, json |-> json]

\* "a,b\n1,2\n3,4"
DocCsv == Doc("csv", TRUE, CsvOk(StrTable(<< <<"a">>, <<"b">> >>, MaxRows, 1)),
              Json("invalid", NoTable))

\* " A b ,b\n1,2": read_csv keeps header whitespace and case
DocCsvSpaces == Doc("csv_spaces", TRUE,
                    CsvOk(StrTable(<< <<" ", "A", " ", "b", " ">>, <<"b">> >>, 1, 2)),
                    Json("invalid", NoTable))

\* "A,a\n1,2"
DocCsvCase == Doc("csv_case", TRUE,
                  CsvOk(StrTable(<< <<"A">>, <<"a">> >>, 1, 3)),
                  Json("invalid", NoTable))

\* "a\n1"
DocCsvOneCol == Doc("csv_one_col", TRUE, CsvOk(StrTable(<< <<"a">> >>, 1, 1)),
                    Json("invalid", NoTable))

\* "a,b": a header and no rows
DocCsvHeader == Doc("csv_header", TRUE,
                    CsvOk(StrTable(<< <<"a">>, <<"b">> >>, 0, 1)),
                    Json("invalid", NoTable))

\* "a,b\n1,2\n3,4,5": pandas.errors.ParserError
DocCsvRagged == Doc("csv_ragged", TRUE, CsvErr("ParserError"),
                    Json("invalid", NoTable))

\* "": pandas.errors.EmptyDataError
DocEmpty == Doc("empty", TRUE, CsvErr("EmptyDataError"), Json("invalid", NoTable))

\* b"\xff"
DocBinary == Doc("binary", FALSE, CsvErr("UnicodeDecodeError"),
                 Json("invalid", NoTable))

\* '[{"a":1,"b":2}]': as CSV, one header line of two fields
DocJsonObjs == Doc("json_objs", TRUE,
                   CsvOk(StrTable(<< <<"[", "{", "a">>, <<"b", "}", "]">> >>, 0, 1)),
                   Json("array_objects",
                        StrTable(<< <<"a">>, <<"b">> >>, 1, 4)))

\* '[\n{"a":1},\n{"a":1,"b":2,"c":3}]': as CSV, line 3 has too many fields
DocJsonObjsLines == Doc("json_objs_lines", TRUE, CsvErr("ParserError"),
                        Json("array_objects",
                             StrTable(<< <<"a">>, <<"b">>, <<"c">> >>, MaxRows, 5)))

\* '[[1,2],[3,4]]'
DocJsonArrays == Doc("json_arrays", TRUE,
                     CsvOk(StrTable(<< <<"[", "[", "1">>, <<"2", "]">>,
                                       <<"[", "3">>, <<"4", "]", "]">> >>, 0, 1)),
                     Json("array_arrays", IntTable(2, 2, 6)))

\* '[\n[1],\n[1,2,3]]': as CSV, line 3 has too many fields
DocJsonArraysLines == Doc("json_arrays_lines", TRUE, CsvErr("ParserError"),
                          Json("array_arrays", IntTable(3, 2, 7)))

\* '[1,2,3]'
DocJsonScalars == Doc("json_scalars", TRUE,
                      CsvOk(StrTable(<< <<"[", "1">>, <<"2">>, <<"3", "]">> >>, 0, 1)),
                      Json("array_scalars", IntTable(1, MaxRows, 8)))

\* '5'
DocJsonNumber == Doc("json_number", TRUE,
                     CsvOk(StrTable(<< <<"5">> >>, 0, 1)),
                     Json("scalar", NoTable))

\* 'null'
DocJsonNull == Doc("json_null", TRUE,
                   CsvOk(StrTable(<< <<"n", "u", "l", "l">> >>, 0, 1)),
                   Json("null", NoTable))

\* '{"a":1,"b":2}'
DocJsonObject == Doc("json_object", TRUE,
                     CsvOk(StrTable(<< <<"{", "a">>, <<"b", "}">> >>, 0, 1)),
                     Json("object_scalars", NoTable))

\* '{"a":[1,2],"b":[3,4]}'
DocJsonColumns == Doc("json_columns", TRUE,
                      CsvOk(StrTable(<< <<"{", "a">>, <<"2", "]">>,
                                        <<"b">>, <<"4", "]", "}">> >>, 0, 1)),
                      Json("object_columns",
                           StrTable(<< <<"a">>, <<"b">> >>, 2, 9)))

\* 'plot this'
DocWords == Doc("words", TRUE, CsvOk(StrTable(<< <<"p", "l", "o", "t">> >>, 0, 1)),
                Json("invalid", NoTable))

\* str.encode("utf-8") of a form field always decodes
TextDocs == {DocCsv, DocCsvSpaces, DocCsvCase, DocCsvOneCol, DocCsvHeader,
             DocCsvRagged, DocJsonObjs, DocJsonObjsLines, DocJsonArrays,
             DocJsonArraysLines, DocJsonScalars, DocJsonNumber, DocJsonNull,
             DocJsonObject, DocJsonColumns, DocWords}

FileDocs == TextDocs \cup {DocEmpty, DocBinary}

NoDoc == Doc("none", TRUE, CsvErr("EmptyDataError"), Json("invalid", NoTable))

(***************************************************************************)
(* pandas and json, as the pipeline calls them.                            *)
(***************************************************************************)
decode(doc) == IF doc.utf8 THEN "none" ELSE "UnicodeDecodeError"

\* pd.read_csv(StringIO(data_content.decode("utf-8")))
read_csv(doc) ==
    IF decode(doc) # "none" THEN CsvErr(decode(doc)) ELSE doc.csv

\* pd.DataFrame(value): a scalar, or a dict of scalars, is refused with a
\* ValueError; None gives the empty frame.
DataFrame(json) ==
    IF json.kind \in {"scalar", "object_scalars"}
    THEN [exc |-> "ValueError", df |-> NoTable]
    ELSE [exc |-> "none", df |-> json.df]

\* pd.DataFrame(json.loads(data_content.decode("utf-8")))
read_json(doc) ==
    IF decode(doc) # "none" THEN [exc |-> decode(doc), df |-> NoTable]
    ELSE IF doc.json.kind = "invalid" THEN [exc |-> "JSONDecodeError", df |-> NoTable]
    ELSE DataFrame(doc.json)

(***************************************************************************)
(* Request and response values.                                            *)
(***************************************************************************)
NoLabel == [t |-> "none", v |-> <<>>]

NoConfig == [chart_type |-> None, x |-> NoLabel, y |-> NoLabel]

NoEmbedding == [none |-> TRUE, vec |-> <<>>]

NoLlm == [kind |-> "unset", obj |-> NoConfig]

NoEnv(m) == [model |-> m, llm |-> NoLlm, plotly |-> "unset", embed |-> "unset",
             store |-> "unset"]

NoCalls == [llm |-> 0, embed |-> 0, upsert |-> 0]

NoResp == [http |-> 0, status |-> "pending", detail |-> ""]

NoCall == [op |-> "none", existed |-> FALSE, getRaised |-> FALSE,
           createIssued |-> FALSE, exc |-> "none", points |-> <<>>]

NoReq == [endpoint |-> "none", query |-> "", chart_type |-> None, file |-> "none",
          json_data |-> "none", manual_data |-> "none"]

\* Python truthiness of an optional form string
Truthy(s) == s # None /\ s # ""

Queries == {"plot a vs b", "show a pie chart"}

ChartTypes == {"bar", "line", "donut"}

FileNames == {"d.csv", "d.json", "d.txt"}

Suffix(name) ==
    CASE name = "d.csv" -> ".csv"
      [] name = "d.json" -> ".json"
      [] OTHER -> ".txt"

\* str.endswith(suffixes)
EndsWith(name, suffixes) == Suffix(name) \in suffixes

NoUpload == [given |-> "none", name |-> None, doc |-> NoDoc]

Uploads == {[given |-> "file", name |-> n, doc |-> d] : n \in FileNames, d \in FileDocs}

\* an optional form string: absent, "" or a text
Fields == {[given |-> "none", doc |-> NoDoc], [given |-> "empty", doc |-> NoDoc]}
          \cup {[given |-> "text", doc |-> d] : d \in TextDocs}

(***************************************************************************)
(* backend/app.py: the exception clauses of create_chart and get_trends.   *)
(***************************************************************************)
\* create_chart: HTTPException passes, ValueError gives 400, the rest 500
CreateChartError(e, msg) ==
    IF e = "HTTPException" THEN [http |-> 400, status |-> "error", detail |-> msg]
    ELSE IF e \in ValueErrors THEN [http |-> 400, status |-> "error", detail |-> msg]
    ELSE [http |-> 500, status |-> "error", detail |-> msg]

\* get_trends: HTTPException passes, every other exception gives 500
GetTrendsError(e, msg) ==
    IF e = "HTTPException" THEN [http |-> 400, status |-> "error", detail |-> msg]
    ELSE [http |-> 500, status |-> "error", detail |-> msg]

(***************************************************************************)
(* backend/routes.py generate_chart, step 1: data loading.                 *)
(***************************************************************************)
\* Every failure of the loaders is, or is re-raised as, a ValueError:
\* UnicodeDecodeError, JSONDecodeError, ParserError and EmptyDataError are
\* subclasses of ValueError.
LoadData(dtype, doc) ==
    CASE dtype = "json" ->
           IF read_json(doc).exc = "JSONDecodeError"
           THEN [exc |-> "ValueError", msg |-> "Invalid JSON data", df |-> NoTable]
           ELSE [exc |-> read_json(doc).exc, msg |-> "pandas", df |-> read_json(doc).df]
      [] dtype = "file" ->
           IF read_csv(doc).exc = "none"
           THEN [exc |-> "none", msg |-> "", df |-> read_csv(doc).df]
           ELSE IF read_json(doc).exc = "none"
           THEN [exc |-> "none", msg |-> "", df |-> read_json(doc).df]
           ELSE [exc |-> "ValueError",
                 msg |-> "Error processing file content as CSV or JSON", df |-> NoTable]
      [] dtype = "manual" ->
           IF read_csv(doc).exc = "none"
           THEN [exc |-> "none", msg |-> "", df |-> read_csv(doc).df]
           ELSE [exc |-> "ValueError",
                 msg |-> "Error processing manual CSV data", df |-> NoTable]
      [] OTHER -> [exc |-> "ValueError", msg |-> "Unknown data type.", df |-> NoTable]

\* [sanitize_column_name(col) for col in df.columns]: the first label that is
\* no str raises and the assignment to df.columns does not happen.
SanitizeColumns(t) ==
    IF \E k \in 1..Len(t.columns) : sanitize_column_name(t.columns[k]).exc # "none"
    THEN [exc |-> "AttributeError", df |-> t]
    ELSE [exc |-> "none",
          df |-> [t EXCEPT !.columns =
                     [k \in 1..Len(t.columns) |-> sanitize_column_name(t.columns[k]).label]]]

(***************************************************************************)
(* backend/llm_integration.py                                              *)
(***************************************************************************)
ConfigKeys == {"chart_type", "x", "y"}

\* The literal of lines 33, 49, 53, 58 and 66; columns[0] of an empty list
\* raises IndexError.
DefaultConfig(columns) ==
    IF Len(columns) >= 2
    THEN [exc |-> "none",
          config |-> [chart_type |-> "scatter", x |-> columns[1], y |-> columns[2]]]
    ELSE IF Len(columns) = 1
    THEN [exc |-> "none",
          config |-> [chart_type |-> "scatter", x |-> columns[1], y |-> NoLabel]]
    ELSE [exc |-> "IndexError", config |-> NoConfig]

\* What the collaborator can answer for these columns.
LlmNames(columns) == Range(columns) \cup {StrLabel(<<"z">>)}

LlmObjects(columns) ==
    {[k \in K |-> full[k]] :
        K \in SUBSET ConfigKeys,
        full \in [chart_type : {"bar", "donut"}, x : LlmNames(columns),
                  y : LlmNames(columns)]}

LlmOutcomes(columns) ==
    {[kind |-> k, obj |-> NoConfig] : k \in {"raises", "invalid", "nonobject"}}
    \cup {[kind |-> "object", obj |-> o] : o \in LlmObjects(columns)}

InterpretNoAxisCheck(modelOk, llm, columns) ==
    IF ~modelOk THEN DefaultConfig(columns) @@ [called |-> FALSE]
    ELSE IF llm.kind \in {"raises", "invalid", "nonobject"}
    THEN DefaultConfig(columns) @@ [called |-> TRUE]
    ELSE IF ~(ConfigKeys \subseteq DOMAIN llm.obj)
    THEN DefaultConfig(columns) @@ [called |-> TRUE]
    ELSE [exc |-> "none", config |-> llm.obj, called |-> TRUE]

interpret_query(modelOk, llm, columns) ==
    IF ~modelOk THEN DefaultConfig(columns) @@ [called |-> FALSE]
    ELSE IF llm.kind \in {"raises", "invalid", "nonobject"}
    THEN DefaultConfig(columns) @@ [called |-> TRUE]
    ELSE IF ~(ConfigKeys \subseteq DOMAIN llm.obj)
    THEN DefaultConfig(columns) @@ [called |-> TRUE]
    ELSE IF llm.obj["x"] \notin Range(columns) \/ llm.obj["y"] \notin Range(columns)
    THEN DefaultConfig(columns) @@ [called |-> TRUE]
    ELSE [exc |-> "none", config |-> llm.obj, called |-> TRUE]

EmbedOutcomes == {"raises", "vector", "none"}

\* generate_embedding: None without a model and on any exception, else
\* response["embedding"].
generate_embedding(modelOk, outcome) ==
    IF ~modelOk THEN [value |-> NoEmbedding, called |-> FALSE]
    ELSE IF outcome = "vector"
    THEN [value |-> [none |-> FALSE, vec |-> <<1, 2>>], called |-> TRUE]
    ELSE [value |-> NoEmbedding, called |-> TRUE]

\* "if embedding:"
EmbeddingTruthy(e) == ~e.none /\ Len(e.vec) > 0

(***************************************************************************)
(* backend/chart_generator.py                                              *)
(***************************************************************************)
SupportedCharts == {"line", "bar", "pie", "scatter", "heatmap"}

\* Every exception, the unsupported type included, leaves as ValueError.
create_chart(ctype, plotly) ==
    IF ctype \in SupportedCharts /\ plotly = "ok"
    THEN [exc |-> "none", msg |-> ""]
    ELSE [exc |-> "ValueError", msg |-> "Failed to generate chart."]

(***************************************************************************)
(* backend/database.py                                                     *)
(***************************************************************************)
Seeds == {0, 1}

NameCode(name) ==
    CASE name = None -> 0
      [] name = "d.csv" -> 1
      [] name = "d.json" -> 2
      [] OTHER -> 3

\* hash() of a str or of None: fixed within a process, different from one
\* process to the next (hash randomisation).
StrHash(seed, name) == (NameCode(name) + seed) % 4

\* hash((i, filename)): a signed integer, a function of the pair alone within
\* a process, distinct for the distinct pairs of the model.
TupleHash(seed, i, name) == 4 * i + StrHash(seed, name) - seed

\* df.iloc[i].to_dict(): label -> cell, the last of equal labels kept
RowDict(t, i) ==
    {<<t.columns[j], t.rows[i][j]>> :
        j \in {j \in 1..Len(t.columns) :
                 \A k \in (j + 1)..Len(t.columns) : t.columns[k] # t.columns[j]}}

Payload(t, i, name) ==
    [values |-> RowDict(t, i), filename |-> IF Truthy(name) THEN name ELSE None]

PointsContentIds(t, embeddings, name, seed) ==
    [i \in 1..Len(t.rows) |->
        [id |-> TupleHash(seed, i - 1, name) + 16 * t.rows[1][1],
         vector |-> embeddings[IF i <= Len(embeddings) THEN i ELSE 1],
         payload |-> Payload(t, i, name)]]

\* the points of lines 52-60, for the rows that have an embedding
Points(t, embeddings, name, seed) ==
    [i \in 1..Len(t.rows) |->
        [id |-> TupleHash(seed, i - 1, name),
         vector |-> embeddings[IF i <= Len(embeddings) THEN i ELSE 1],
         payload |-> Payload(t, i, name)]]

\* The vector store: point ids are unsigned, a point replaces the stored
\* point of the same id.
StoreAccepts(points, serverUp, coll) ==
    serverUp /\ coll /\ \A k \in 1..Len(points) : points[k].id >= 0

Upserted(st, points) ==
    {p \in st : \A k \in 1..Len(points) : points[k].id # p.id} \cup Range(points)

\* embeddings[i] raises IndexError at the first row without an embedding,
\* before anything is sent; every exception is logged and re-raised.
save_embeddings(t, embeddings, name, seed, serverUp, coll, st) ==
    IF Len(embeddings) < Len(t.rows)
    THEN [exc |-> "IndexError", store |-> st, points |-> <<>>]
    ELSE IF ~StoreAccepts(Points(t, embeddings, name, seed), serverUp, coll)
    THEN [exc |-> "UnexpectedResponse", store |-> st, points |-> <<>>]
    ELSE [exc |-> "none", store |-> Upserted(st, Points(t, embeddings, name, seed)),
          points |-> Points(t, embeddings, name, seed)]

\* create_collection: any exception of get_collection leads to the create
\* request; an exception of the create request leaves the function (the
\* second except clause guards the try body only and never runs).
create_collection(getUp, createUp, coll) ==
    IF getUp /\ coll
    THEN [getRaised |-> FALSE, createIssued |-> FALSE, exc |-> "none", coll |-> coll]
    ELSE IF createUp /\ ~coll
    THEN [getRaised |-> TRUE, createIssued |-> TRUE, exc |-> "none", coll |-> TRUE]
    ELSE [getRaised |-> TRUE, createIssued |-> TRUE, exc |-> "UnexpectedResponse",
          coll |-> coll]

(***************************************************************************)
(* backend/routes.py: the names its import statements bind.                *)
(***************************************************************************)
RoutesImports == {"pd", "StringIO", "json", "Dict", "Optional", "create_chart",
                  "interpret_query", "analyze_data", "generate_embedding",
                  "validate_dataset", "sanitize_column_name", "logging",
                  "traceback", "plotly", "jsonable_encoder"}

(***************************************************************************)
(* The service: one request at a time through backend/app.py.              *)
(***************************************************************************)
IdleDb == /\ startup = [state |-> "unloaded", pid |-> 0]
          /\ hashSeed = 0
          /\ collection = TRUE
          /\ store = {}
          /\ lastCall = NoCall
          /\ uploads = <<>>

IdleFn == /\ fnIn = NoTable
          /\ fnOut = [exc |-> "unset", msg |-> "", df |-> NoTable]

IdlePipe(m) == /\ pc = "idle"
               /\ req = NoReq
               /\ content = NoDoc
               /\ data_type = None
               /\ filename = None
               /\ df = NoTable
               /\ chart_config = NoConfig
               /\ embedding = NoEmbedding
               /\ env = NoEnv(m)
               /\ steps = <<>>
               /\ calls = NoCalls
               /\ resp = NoResp

\* routes.py never imports database.py, so the service process does not run
\* create_collection; the collection is taken to exist on the server.
Init == /\ \E m \in BOOLEAN : IdlePipe(m)
        /\ IdleDb
        /\ IdleFn

Summary(endpoint, query, ctype, file, jd, md) ==
    [endpoint |-> endpoint, query |-> query, chart_type |-> ctype,
     file |-> file.given, json_data |-> jd.given, manual_data |-> md.given]

Fresh == /\ df' = NoTable
         /\ chart_config' = NoConfig
         /\ embedding' = NoEmbedding
         /\ env' = NoEnv(env.model)
         /\ steps' = <<>>
         /\ calls' = NoCalls
         /\ lastCall' = NoCall

AbortContinue(e, msg) ==
    /\ resp' = CreateChartError(e, msg)
    /\ pc' = "embed"

\* The exception leaves generate_chart (logged and re-raised, line 107) and
\* create_chart answers it.
Abort(e, msg) ==
    /\ resp' = CreateChartError(e, msg)
    /\ pc' = "done"

SelectExactlyOne(file, jd, md) ==
    IF Cardinality({f \in {file.given, jd.given, md.given} : f \in {"file", "text"}}) = 2
       \/ (jd.given = "text" /\ md.given = "text")
    THEN [exc |-> "HTTPException", msg |-> "Provide exactly one data source",
          content |-> NoDoc, data_type |-> None, filename |-> file.name]
    ELSE IF file.given = "file"
    THEN [exc |-> "none", msg |-> "", content |-> file.doc, data_type |-> "file",
          filename |-> file.name]
    ELSE IF jd.given = "text"
    THEN [exc |-> "none", msg |-> "", content |-> jd.doc, data_type |-> "json",
          filename |-> None]
    ELSE IF md.given = "text"
    THEN [exc |-> "none", msg |-> "", content |-> md.doc, data_type |-> "manual",
          filename |-> None]
    ELSE [exc |-> "HTTPException", msg |-> "No data provided",
          content |-> NoDoc, data_type |-> None, filename |-> None]

\* app.py lines 52-78
SelectData(file, jd, md) ==
    IF file.given = "file"
    THEN IF ~EndsWith(file.name, {".csv", ".json"})
         THEN [exc |-> "HTTPException", msg |-> "Only CSV and JSON files are supported",
               content |-> NoDoc, data_type |-> None, filename |-> file.name]
         ELSE [exc |-> "none", msg |-> "", content |-> file.doc, data_type |-> "file",
               filename |-> file.name]
    ELSE IF jd.given = "text"
    THEN [exc |-> "none", msg |-> "", content |-> jd.doc, data_type |-> "json",
          filename |-> None]
    ELSE IF md.given = "text"
    THEN [exc |-> "none", msg |-> "", content |-> md.doc, data_type |-> "manual",
          filename |-> None]
    ELSE [exc |-> "HTTPException", msg |-> "No data provided",
          content |-> NoDoc, data_type |-> None, filename |-> None]

CreateChart ==
    /\ pc = "idle"
    /\ \E query \in Queries, ctype \in ChartTypes \cup {None, ""},
          file \in Uploads \cup {NoUpload}, jd \in Fields, md \in Fields :
          LET r == SelectData(file, jd, md) IN
          /\ req' = Summary("generate-chart", query, ctype, file, jd, md)
          /\ content' = r.content
          /\ data_type' = r.data_type
          /\ filename' = r.filename
          /\ IF r.exc = "none"
             THEN pc' = "parse" /\ resp' = NoResp
             ELSE Abort(r.exc, r.msg)
    /\ Fresh
    /\ UNCHANGED <<startup, hashSeed, collection, store, uploads>>
    /\ UNCHANGED fnVars

\* routes.py lines 41-63
Parse ==
    /\ pc = "parse"
    /\ steps' = Append(steps, "parse")
    /\ LET r == LoadData(data_type, content) IN
       /\ df' = r.df
       /\ IF r.exc = "none" THEN pc' = "validate" /\ resp' = resp
                            ELSE Abort(r.exc, r.msg)
    /\ UNCHANGED <<req, content, data_type, filename, chart_config, embedding,
                   env, calls>>
    /\ UNCHANGED dbVars
    /\ UNCHANGED fnVars

\* routes.py line 65
Validate ==
    /\ pc = "validate"
    /\ steps' = Append(steps, "validate")
    /\ LET r == validate_dataset(df) IN
       /\ df' = r.df
       /\ IF r.exc = "none" THEN pc' = "sanitize" /\ resp' = resp
                            ELSE Abort(r.exc, r.msg)
    /\ UNCHANGED <<req, content, data_type, filename, chart_config, embedding,
                   env, calls>>
    /\ UNCHANGED dbVars
    /\ UNCHANGED fnVars

\* routes.py line 67
Sanitize ==
    /\ pc = "sanitize"
    /\ steps' = Append(steps, "sanitize")
    /\ LET r == SanitizeColumns(df) IN
       /\ df' = r.df
       /\ IF r.exc = "none" THEN pc' = "resolve" /\ resp' = resp
                            ELSE Abort(r.exc, "'int' object has no attribute 'strip'")
    /\ UNCHANGED <<req, content, data_type, filename, chart_config, embedding,
                   env, calls>>
    /\ UNCHANGED dbVars
    /\ UNCHANGED fnVars

\* routes.py lines 69-72: a truthy chart_type is taken as it is and the
\* collaborator is not asked.
ResolveAlwaysAsk(ctype, modelOk, llm, columns) ==
    IF Truthy(ctype) /\ ~modelOk
    THEN [exc |-> "none",
          config |-> [chart_type |-> ctype, x |-> columns[1], y |-> columns[2]],
          called |-> FALSE]
    ELSE interpret_query(modelOk, llm, columns)

ResolveConfig(ctype, modelOk, llm, columns) ==
    IF Truthy(ctype)
    THEN [exc |-> "none",
          config |-> [chart_type |-> ctype, x |-> columns[1], y |-> columns[2]],
          called |-> FALSE]
    ELSE interpret_query(modelOk, llm, columns)

Resolve ==
    /\ pc = "resolve"
    /\ steps' = Append(steps, "resolve")
    /\ \E llm \in (IF env.model THEN LlmOutcomes(df.columns) ELSE {NoLlm}) :
          LET r == ResolveConfig(req.chart_type, env.model, llm, df.columns) IN
          /\ env' = [env EXCEPT !.llm = IF r.called THEN llm ELSE NoLlm]
          /\ calls' = [calls EXCEPT !.llm = @ + (IF r.called THEN 1 ELSE 0)]
          /\ chart_config' = r.config
          /\ IF r.exc = "none" THEN pc' = "check" /\ resp' = resp
                               ELSE Abort(r.exc, "")
    /\ UNCHANGED <<req, content, data_type, filename, df, embedding>>
    /\ UNCHANGED dbVars
    /\ UNCHANGED fnVars

\* routes.py lines 74-79
CheckAxes ==
    /\ pc = "check"
    /\ steps' = Append(steps, "check")
    /\ IF chart_config["x"] \notin Range(df.columns)
          \/ chart_config["y"] \notin Range(df.columns)
       THEN Abort("ValueError", "Columns not found in dataset")
       ELSE pc' = "render" /\ resp' = resp
    /\ UNCHANGED <<req, content, data_type, filename, df, chart_config, embedding,
                   env, calls>>
    /\ UNCHANGED dbVars
    /\ UNCHANGED fnVars

\* routes.py line 82
Render ==
    /\ pc = "render"
    /\ steps' = Append(steps, "render")
    /\ \E plotly \in (IF chart_config["chart_type"] \in SupportedCharts
                      THEN {"ok", "raises"} ELSE {"unsupported"}) :
          LET r == create_chart(chart_config["chart_type"], plotly) IN
          /\ env' = [env EXCEPT !.plotly = plotly]
          /\ IF r.exc = "none" THEN pc' = "embed" /\ resp' = resp
                               ELSE Abort(r.exc, r.msg)
    /\ UNCHANGED <<req, content, data_type, filename, df, chart_config, embedding,
                   calls>>
    /\ UNCHANGED dbVars
    /\ UNCHANGED fnVars

\* routes.py lines 84-85
Embed ==
    /\ pc = "embed"
    /\ steps' = Append(steps, "embed")
    /\ \E outcome \in (IF env.model THEN EmbedOutcomes ELSE {"unset"}) :
          LET r == generate_embedding(env.model, outcome) IN
          /\ env' = [env EXCEPT !.embed = outcome]
          /\ calls' = [calls EXCEPT !.embed = @ + (IF r.called THEN 1 ELSE 0)]
          /\ embedding' = r.value
    /\ pc' = "upsert"
    /\ UNCHANGED <<req, content, data_type, filename, df, chart_config, resp>>
    /\ UNCHANGED dbVars
    /\ UNCHANGED fnVars

\* routes.py lines 88-92: the name save_embeddings is looked up when line 90
\* runs; routes.py binds no such name, so the call raises NameError, which the
\* except clause of line 91 logs.
PersistUncaught(e, t, name, seed, serverUp, coll, st) ==
    IF ~EmbeddingTruthy(e)
    THEN [exc |-> "none", caught |-> "none", called |-> FALSE, store |-> st,
          points |-> <<>>]
    ELSE IF "save_embeddings" \notin RoutesImports
    THEN [exc |-> "NameError", caught |-> "none", called |-> FALSE, store |-> st,
          points |-> <<>>]
    ELSE [exc |-> save_embeddings(t, <<e.vec>>, name, seed, serverUp, coll, st).exc,
          caught |-> "none", called |-> TRUE,
          store |-> save_embeddings(t, <<e.vec>>, name, seed, serverUp, coll, st).store,
          points |-> save_embeddings(t, <<e.vec>>, name, seed, serverUp, coll, st).points]

Persist(e, t, name, seed, serverUp, coll, st) ==
    IF ~EmbeddingTruthy(e)
    THEN [exc |-> "none", caught |-> "none", called |-> FALSE, store |-> st,
          points |-> <<>>]
    ELSE IF "save_embeddings" \notin RoutesImports
    THEN [exc |-> "none", caught |-> "NameError", called |-> FALSE, store |-> st,
          points |-> <<>>]
    ELSE [exc |-> "none",
          caught |-> save_embeddings(t, <<e.vec>>, name, seed, serverUp, coll, st).exc,
          called |-> TRUE,
          store |-> save_embeddings(t, <<e.vec>>, name, seed, serverUp, coll, st).store,
          points |-> save_embeddings(t, <<e.vec>>, name, seed, serverUp, coll, st).points]

Upsert ==
    /\ pc = "upsert"
    /\ \E up \in (IF EmbeddingTruthy(embedding) THEN {"up", "down"} ELSE {"unset"}) :
          LET r == Persist(embedding, df, filename, hashSeed, up = "up",
                           collection, store) IN
          /\ env' = [env EXCEPT !.store = up]
          /\ steps' = IF EmbeddingTruthy(embedding) THEN Append(steps, "upsert")
                                                    ELSE steps
          /\ calls' = [calls EXCEPT !.upsert = @ + (IF r.called THEN 1 ELSE 0)]
          /\ store' = r.store
          /\ lastCall' = IF EmbeddingTruthy(embedding)
                          THEN [NoCall EXCEPT !.op = "save_embeddings",
                                              !.exc = r.caught, !.points = r.points]
                          ELSE NoCall
          /\ IF r.exc = "none" THEN pc' = "respond" /\ resp' = resp
                               ELSE Abort(r.exc, "")
    /\ UNCHANGED <<req, content, data_type, filename, df, chart_config, embedding>>
    /\ UNCHANGED <<startup, hashSeed, collection, uploads>>
    /\ UNCHANGED fnVars

\* routes.py lines 94-103, app.py lines 78-79
Respond ==
    /\ pc = "respond"
    /\ steps' = Append(steps, "respond")
    /\ resp' = [http |-> 200, status |-> "success", detail |-> ""]
    /\ pc' = "done"
    /\ UNCHANGED <<req, content, data_type, filename, df, chart_config, embedding,
                   env, calls>>
    /\ UNCHANGED dbVars
    /\ UNCHANGED fnVars

\* routes.py lines 110-122 with llm_integration.py analyze_data, which
\* answers a fixed text instead of raising
analyze_trends(doc) ==
    IF read_csv(doc).exc # "none"
    THEN [exc |-> read_csv(doc).exc, msg |-> "read_csv", df |-> NoTable]
    ELSE IF validate_dataset(read_csv(doc).df).exc # "none"
    THEN [exc |-> validate_dataset(read_csv(doc).df).exc,
          msg |-> validate_dataset(read_csv(doc).df).msg, df |-> read_csv(doc).df]
    ELSE [exc |-> "none", msg |-> "", df |-> read_csv(doc).df]

\* app.py lines 99-119
GetTrends ==
    /\ pc = "idle"
    /\ \E query \in Queries, file \in Uploads \cup {NoUpload},
          text \in (IF env.model THEN {"raises", "text"} ELSE {"unset"}) :
          /\ req' = Summary("analyze-trends", query, None, file, NoUpload, NoUpload)
          /\ content' = file.doc
          /\ filename' = file.name
          /\ IF file.given = "file" /\ EndsWith(file.name, {".csv"})
             THEN LET r == analyze_trends(file.doc) IN
                  /\ df' = r.df
                  /\ env' = [NoEnv(env.model) EXCEPT
                               !.llm.kind = IF r.exc = "none" THEN text ELSE "unset"]
                  /\ calls' = [NoCalls EXCEPT
                                 !.llm = IF r.exc = "none" /\ env.model THEN 1 ELSE 0]
                  /\ resp' = IF r.exc = "none"
                             THEN [http |-> 200, status |-> "success", detail |-> ""]
                             ELSE GetTrendsError(r.exc, r.msg)
             ELSE /\ df' = NoTable
                  /\ env' = NoEnv(env.model)
                  /\ calls' = NoCalls
                  /\ resp' = GetTrendsError("HTTPException",
                                            "CSV file required for trend analysis")
    /\ pc' = "done"
    /\ data_type' = None
    /\ chart_config' = NoConfig
    /\ embedding' = NoEmbedding
    /\ steps' = <<>>
    /\ lastCall' = NoCall
    /\ UNCHANGED <<startup, hashSeed, collection, store, uploads>>
    /\ UNCHANGED fnVars

\* The response is sent and the worker takes the next request.
Deliver ==
    /\ pc = "done"
    /\ pc' = "idle"
    /\ req' = NoReq
    /\ content' = NoDoc
    /\ data_type' = None
    /\ filename' = None
    /\ resp' = NoResp
    /\ Fresh
    /\ UNCHANGED <<startup, hashSeed, collection, store, uploads>>
    /\ UNCHANGED fnVars

Next == \/ CreateChart
        \/ Parse
        \/ Validate
        \/ Sanitize
        \/ Resolve
        \/ CheckAxes
        \/ Render
        \/ Embed
        \/ Upsert
        \/ Respond
        \/ GetTrends
        \/ Deliver

Spec == Init /\ [][Next]_vars

(***************************************************************************)
(* backend/database.py as a module of its own: a process imports it, which *)
(* runs create_collection (line 40), and then calls its functions.         *)
(***************************************************************************)
DbTables == {StrTable(<< <<"a">>, <<"b">> >>, n, v) : n \in 1..MaxRows, v \in 1..2}

\* one embedding per row, as the docstring of save_embeddings asks
RowEmbeddings(t, n) == [i \in 1..n |-> <<t.rows[1][1], i>>]

InitDb == /\ IdlePipe(TRUE)
          /\ IdleFn
          /\ startup = [state |-> "starting", pid |-> 0]
          /\ hashSeed \in Seeds
          /\ collection \in BOOLEAN
          /\ store = {}
          /\ lastCall = NoCall
          /\ uploads = <<>>

EnsureCollection(getUp, createUp) ==
    LET r == create_collection(getUp, createUp, collection) IN
    /\ collection' = r.coll
    /\ lastCall' = [NoCall EXCEPT !.op = "create_collection",
                                  !.existed = collection,
                                  !.getRaised = r.getRaised,
                                  !.createIssued = r.createIssued,
                                  !.exc = r.exc]
    /\ startup' = IF startup.state = "starting"
                  THEN [startup EXCEPT !.state = IF r.exc = "none" THEN "running"
                                                                   ELSE "failed"]
                  ELSE startup

\* database.py line 40: the call made while the module is imported; an
\* exception ends the import.
ImportDatabase ==
    /\ startup.state = "starting"
    /\ \E getUp \in BOOLEAN, createUp \in BOOLEAN : EnsureCollection(getUp, createUp)
    /\ UNCHANGED <<hashSeed, store, uploads>>
    /\ UNCHANGED pipeVars
    /\ UNCHANGED fnVars

\* database.py lines 24-38, called again by the running process
CallCreateCollection ==
    /\ startup.state = "running"
    /\ \E getUp \in BOOLEAN, createUp \in BOOLEAN : EnsureCollection(getUp, createUp)
    /\ UNCHANGED <<hashSeed, store, uploads>>
    /\ UNCHANGED pipeVars
    /\ UNCHANGED fnVars

\* database.py lines 42-66
CallSaveEmbeddings ==
    /\ startup.state = "running"
    /\ Len(uploads) < MaxUploads
    /\ \E t \in DbTables, name \in {None, "d.csv"},
          missing \in {0, 1}, serverUp \in BOOLEAN :
          LET r == save_embeddings(t, RowEmbeddings(t, Len(t.rows) - missing), name,
                                   hashSeed, serverUp, collection, store) IN
          /\ store' = r.store
          /\ lastCall' = [NoCall EXCEPT !.op = "save_embeddings", !.exc = r.exc,
                                        !.points = r.points]
          /\ uploads' = IF r.exc = "none"
                        THEN Append(uploads, [pid |-> startup.pid, filename |-> name,
                                              df |-> t, points |-> r.points])
                        ELSE uploads
    /\ UNCHANGED <<startup, hashSeed, collection>>
    /\ UNCHANGED pipeVars
    /\ UNCHANGED fnVars

\* The process ends and a new one starts, with a new hash seed.
Restart ==
    /\ startup.state \in {"running", "failed"}
    /\ startup.pid < MaxRestarts
    /\ startup' = [state |-> "starting", pid |-> startup.pid + 1]
    /\ hashSeed' \in Seeds
    /\ lastCall' = NoCall
    /\ UNCHANGED <<collection, store, uploads>>
    /\ UNCHANGED pipeVars
    /\ UNCHANGED fnVars

NextDb == \/ ImportDatabase
          \/ CallCreateCollection
          \/ CallSaveEmbeddings
          \/ Restart

SpecDb == InitDb /\ [][NextDb]_vars

(***************************************************************************)
(* backend/utils.py validate_dataset, called on any table.                 *)
(***************************************************************************)
Labels == {StrLabel(<<"a">>), StrLabel(<<"b">>), StrLabel(<<"A">>)}

RECURSIVE SeqsUpTo(_, _)
SeqsUpTo(S, n) ==
    IF n = 0 THEN {<<>>}
    ELSE SeqsUpTo(S, n - 1)
         \cup {Append(q, x) : q \in {q \in SeqsUpTo(S, n - 1) : Len(q) = n - 1}, x \in S}

AnyTables == {[columns |-> c, rows |-> Rows(n, Len(c), 1)] :
                 c \in SeqsUpTo(Labels, MaxCols), n \in 0..MaxRows}

InitFn == /\ IdlePipe(TRUE)
          /\ IdleDb
          /\ IdleFn

CallValidate ==
    /\ \E t \in AnyTables :
          /\ fnIn' = t
          /\ fnOut' = validate_dataset(t)
    /\ UNCHANGED pipeVars
    /\ UNCHANGED dbVars

NextFn == CallValidate

SpecFn == InitFn /\ [][NextFn]_vars

(***************************************************************************)
(* Claims.                                                                 *)
(***************************************************************************)
Done(endpoint) == pc = "done" /\ req.endpoint = endpoint

Ran(step) == req.endpoint = "generate-chart" /\ step \in Range(steps)

\* C1: a generate-chart request whose parse, validation, config resolution
\* and rendering succeeded is answered "success" with HTTP 200, whatever the
\* embedding call and the vector-store upsert did; until then no error
\* response exists.
C1_EnrichmentIsNonFatal ==
    (Ran("render") /\ env.plotly = "ok") =>
        /\ pc \in {"embed", "upsert", "respond", "done"}
        /\ pc # "done" => resp = NoResp
        /\ pc = "done" => resp = [http |-> 200, status |-> "success", detail |-> ""]

\* C1 witness: the embedding was produced, the upsert raised, the answer is
\* "success".
C1_Witness ==
    /\ Done("generate-chart")
    /\ EmbeddingTruthy(embedding)
    /\ lastCall.op = "save_embeddings" /\ lastCall.exc # "none"
    /\ resp.status = "success"

\* An uploaded CSV that analyze_trends refuses: read_csv fails, or the table
\* has no rows, fewer than 2 columns or equal column names.
TrendsInvalidInput ==
    /\ Done("analyze-trends")
    /\ req.file = "file" /\ EndsWith(filename, {".csv"})
    /\ \/ read_csv(content).exc # "none"
       \/ Len(df.rows) = 0
       \/ Len(df.columns) < 2
       \/ \E i, j \in 1..Len(df.columns) : i # j /\ df.columns[i] = df.columns[j]

\* C2: analyze-trends answers every InvalidInput failure of an uploaded .csv
\* file with HTTP 400, never 500.
C2_TrendsInvalidInputIs400 ==
    TrendsInvalidInput => resp.http = 400

\* Content that is not of the shape its data_type expects: undecodable bytes,
\* text that is no JSON array of objects (json), text read_csv refuses
\* (manual), text that is neither (file).
Unparseable(dtype, doc) ==
    \/ ~doc.utf8
    \/ dtype = "json" /\ doc.json.kind # "array_objects"
    \/ dtype = "manual" /\ doc.csv.exc # "none"
    \/ dtype = "file" /\ doc.csv.exc # "none" /\ doc.json.kind # "array_objects"

\* C3: generate-chart answers content that cannot be parsed into the
\* expected shape with HTTP 400, never 500, for every data_type.
C3_UnparseableIs400 ==
    (Done("generate-chart") /\ data_type # None /\ Unparseable(data_type, content))
        => resp.http = 400

\* the fields of a generate-chart request that carry data
Supplied ==
    {f \in {"file", "json_data", "manual_data"} :
        req[f] \in {"file", "text"}}

FieldType(f) ==
    CASE f = "file" -> "file"
      [] f = "json_data" -> "json"
      [] OTHER -> "manual"

\* C4 as claimed: the pipeline runs only when exactly one of file, json_data,
\* manual_data is supplied, which determines data_type; none is answered 400
\* "No data provided", two or more are rejected with a client error.
C4_ExactlyOneField ==
    (req.endpoint = "generate-chart" /\ pc # "idle") =>
        /\ data_type # None =>
              Cardinality(Supplied) = 1 /\ \A f \in Supplied : data_type = FieldType(f)
        /\ Supplied = {} =>
              pc = "done" /\ resp.http = 400 /\ resp.detail = "No data provided"
        /\ Cardinality(Supplied) >= 2 =>
              pc = "done" /\ resp.http = 400 /\ steps = <<>>

\* C4 amended: the pipeline runs whenever at least one field is supplied (an
\* uploaded file named .csv or .json); data_type is that of the first
\* supplied field in the order file, json_data, manual_data, whatever else is
\* supplied; none is answered 400 "No data provided".
C4_FirstSuppliedField ==
    (req.endpoint = "generate-chart" /\ pc # "idle") =>
        /\ req.file = "file" =>
              IF EndsWith(filename, {".csv", ".json"})
              THEN data_type = "file"
              ELSE data_type = None /\ pc = "done" /\ resp.http = 400 /\ steps = <<>>
        /\ (req.file # "file" /\ req.json_data = "text") => data_type = "json"
        /\ (req.file # "file" /\ req.json_data # "text" /\ req.manual_data = "text")
              => data_type = "manual"
        /\ Supplied = {} =>
              /\ data_type = None /\ pc = "done" /\ steps = <<>>
              /\ resp.http = 400 /\ resp.detail = "No data provided"
        /\ (data_type # None /\ pc = "done") => steps # <<>>

\* C4 witness: a file and json_data are both supplied and the pipeline has
\* run on the file.
C4_Witness ==
    /\ Done("generate-chart")
    /\ req.file = "file" /\ req.json_data = "text"
    /\ data_type = "file"
    /\ resp.status = "success"

\* the default config of the resolver, for at least 2 columns
Fallback == [chart_type |-> "scatter", x |-> df.columns[1], y |-> df.columns[2]]

\* the cases in which the resolver answers the default
FallbackCase ==
    \/ ~env.model
    \/ env.llm.kind \in {"raises", "invalid", "nonobject"}
    \/ \E k \in ConfigKeys : k \notin DOMAIN env.llm.obj
    \/ \A c \in Range(df.columns) : env.llm.obj["x"] # c
    \/ \A c \in Range(df.columns) : env.llm.obj["y"] # c

\* C5: without an explicit chart type the resolver answers the default
\* config when the collaborator is unavailable, raises, answers no JSON
\* object, omits one of chart_type, x, y, or names an x or y that is no
\* column; otherwise it answers the collaborator's object unchanged; it
\* never raises.
C5_ResolverFallback ==
    (Ran("resolve") /\ ~Truthy(req.chart_type)) =>
        /\ Len(df.columns) >= 2
        /\ chart_config = IF FallbackCase THEN Fallback ELSE env.llm.obj
        /\ steps[Len(steps)] = "resolve" => pc = "check" /\ resp = NoResp

\* C5 witness: the collaborator's object omits "y" and the default is used.
C5_Witness ==
    /\ Ran("resolve") /\ ~Truthy(req.chart_type)
    /\ env.llm.kind = "object" /\ DOMAIN env.llm.obj = {"chart_type", "x"}
    /\ chart_config = Fallback

\* C5 witness of the other branch: a complete object naming two columns is
\* returned as it is.
C5_WitnessUnchanged ==
    /\ Ran("resolve") /\ ~Truthy(req.chart_type)
    /\ ~FallbackCase
    /\ chart_config["chart_type"] = "donut"

Explicit ==
    /\ chart_config = [chart_type |-> req.chart_type, x |-> df.columns[1],
                       y |-> df.columns[2]]
    /\ \A k \in 1..2 : sanitize_column_name(df.columns[k]).label = df.columns[k]
    /\ calls.llm = 0
    /\ env.llm = NoLlm

\* C6 as claimed: for any string value of chart_type the resolved config is
\* {chart_type, first sanitized column, second sanitized column} and the
\* collaborator is not called.
C6_AnyStringIsExplicit ==
    (Ran("resolve") /\ req.chart_type # None) => Explicit

\* C6 amended: the same for any non-empty string value of chart_type.
C6_NonEmptyStringIsExplicit ==
    (Ran("resolve") /\ Truthy(req.chart_type)) => Explicit

\* C6 witness: an explicit type the renderer does not know is resolved as
\* given.
C6_Witness ==
    /\ Ran("resolve") /\ req.chart_type = "donut"
    /\ chart_config["chart_type"] = "donut"

\* at least 1 row, at least 2 columns, pairwise distinct column names
ValidTable(t) ==
    /\ Len(t.rows) >= 1
    /\ Len(t.columns) >= 2
    /\ \A i, j \in 1..Len(t.columns) : i # j => t.columns[i] # t.columns[j]

\* C7: validate_dataset returns without error exactly for the tables with at
\* least 1 row, at least 2 columns and pairwise distinct column names, fails
\* with a ValueError for every other table, and leaves the table as it was.
C7_ValidateContract ==
    fnOut.exc # "unset" =>
        /\ fnOut.exc = (IF ValidTable(fnIn) THEN "none" ELSE "ValueError")
        /\ fnOut.df = fnIn

\* C7 witness: a table of 1 row whose two columns carry the same name is
\* refused.
C7_Witness ==
    /\ fnOut.exc = "ValueError"
    /\ Len(fnIn.rows) >= 1 /\ Len(fnIn.columns) = 2
    /\ fnIn.columns[1] = fnIn.columns[2]

\* C7 witness of the accepting case.
C7_WitnessValid ==
    /\ fnOut.exc = "none" /\ ValidTable(fnIn)

\* C8: when the collection exists, create_collection issues no create
\* request, also when the existence query fails for another reason.
C8_NoCreateWhenExists ==
    (lastCall.op = "create_collection" /\ lastCall.existed) => ~lastCall.createIssued

\* C9: two save_embeddings calls of one process with the same filename give
\* the records of the same row index equal ids, whatever the tables hold, and
\* the store then holds, under each such id, the later call's record only.
C9_SameFilenameCollides ==
    \A m, n \in 1..Len(uploads) :
        (m < n /\ n = Len(uploads) /\ uploads[m].pid = uploads[n].pid
         /\ uploads[m].filename = uploads[n].filename) =>
            \A i \in 1..Len(uploads[m].points) :
                i <= Len(uploads[n].points) =>
                    /\ uploads[m].points[i].id = uploads[n].points[i].id
                    /\ {p \in store : p.id = uploads[m].points[i].id}
                          = {uploads[n].points[i]}

\* C9 witness: two uploads of different tables under one filename, the
\* first's record of row 0 gone from the store.
C9_Witness ==
    /\ Len(uploads) = 2
    /\ uploads[1].pid = uploads[2].pid
    /\ uploads[1].filename = uploads[2].filename
    /\ uploads[1].df.rows # uploads[2].df.rows
    /\ uploads[1].points[1] \notin store
    /\ uploads[2].points[1] \in store

\* C10: with an embedding and a reachable vector store, generate_chart
\* upserts one record per row of the table, each with the row's values as
\* payload and the request's one vector.
C10_OneRecordPerRow ==
    (Done("generate-chart") /\ resp.status = "success" /\ EmbeddingTruthy(embedding)
     /\ env.store = "up") =>
        /\ Len(lastCall.points) = Len(df.rows)
        /\ \A i \in 1..Len(lastCall.points) :
              /\ lastCall.points[i].vector = embedding.vec
              /\ lastCall.points[i].payload = Payload(df, i, filename)
        /\ \A i \in 1..Len(lastCall.points) : lastCall.points[i] \in store

\* a name that is trimmed, holds no space and no upper-case letter
SanitizedForm(label) ==
    /\ label.t = "str"
    /\ \A i \in 1..Len(label.v) : label.v[i] \notin {" ", "A", "B"}

\* C11: whenever the chart-config resolver or the renderer runs, the table
\* has at least 2 columns, every column name is in sanitized form and the
\* column names are pairwise distinct.
C11_TableInvariantsDownstream ==
    (Ran("resolve") \/ Ran("render")) =>
        /\ Len(df.columns) >= 2
        /\ \A k \in 1..Len(df.columns) : SanitizedForm(df.columns[k])
        /\ \A i, j \in 1..Len(df.columns) : i # j => df.columns[i] # df.columns[j]

\* the steps of generate_chart, in the order of routes.py
StepOrder == <<"parse", "validate", "sanitize", "resolve", "check", "render",
               "embed", "upsert", "respond">>

Position(step) == CHOOSE k \in 1..Len(StepOrder) : StepOrder[k] = step

LastStep == IF steps = <<>> THEN "none" ELSE steps[Len(steps)]

\* C12: generate_chart runs parse, validate, sanitize, resolve, check,
\* render, embed, upsert, respond in this order, each at most once and never
\* an earlier one again (upsert alone may be left out, when there is no
\* embedding); a failure ends the request at once, so a request answered
\* with an error has made no embedding call and no vector-store write, and a
\* request that failed in parse or validate has called no collaborator.
C12_StrictSequence ==
    req.endpoint = "generate-chart" =>
        /\ \A i \in 1..Len(steps) : steps[i] \in Range(StepOrder)
        /\ \A i, j \in 1..Len(steps) :
              i < j => Position(steps[i]) < Position(steps[j])
        /\ steps # <<>> => steps[1] = "parse"
        /\ \A i \in 1..(Len(steps) - 1) :
              \/ Position(steps[i + 1]) = Position(steps[i]) + 1
              \/ /\ steps[i] = "embed" /\ steps[i + 1] = "respond"
                 /\ ~EmbeddingTruthy(embedding)
        /\ calls.llm <= 1 /\ calls.embed <= 1 /\ calls.upsert <= 1
        /\ resp.status = "error" =>
              /\ pc = "done"
              /\ LastStep \in {"none", "parse", "validate", "sanitize", "resolve",
                               "check", "render"}
              /\ calls.embed = 0 /\ calls.upsert = 0
              /\ embedding = NoEmbedding /\ env.embed = "unset"
              /\ lastCall = NoCall /\ store = {}
        /\ (resp.status = "error" /\ LastStep \in {"none", "parse", "validate"}) =>
              calls = NoCalls /\ env.llm = NoLlm

\* C12 witness: the renderer failed after the collaborator was asked; the
\* request ended there, without an embedding call.
C12_Witness ==
    /\ Done("generate-chart") /\ resp.status = "error"
    /\ LastStep = "render"
    /\ calls.llm = 1 /\ calls.embed = 0

\* C12 witness of the complete run.
C12_WitnessComplete ==
    /\ Done("generate-chart") /\ resp.status = "success"
    /\ steps = StepOrder

====
